---- MODULE Spec2Model ----
(***************************************************************************)
(* A model of app/scripts/focus-controller.js: the FocusController that    *)
(* keeps an array of focusable items, builds for every item its nearest    *)
(* neighbour in the four directions (updateFocusGraph) and moves the focus *)
(* along those neighbours (moveFocus).                                     *)
(*                                                                         *)
(* Conventions.                                                            *)
(*  - A JavaScript number that may be null/undefined is a sequence: <<>>   *)
(*    is null, <<n>> is the number n.  An item reference that may be null  *)
(*    or undefined is the item's name or the string Null / Undefined.      *)
(*  - Positions in the item array are 0-based, as in the source.           *)
(*  - Rectangles have integer left/top/width/height.  The centre of a      *)
(*    rectangle may be a half integer (left + width/2), so metrics are     *)
(*    kept in HALF UNITS: every metric of getItemMetrics is stored times   *)
(*    two, which keeps every value an integer without rounding anything.  *)
(***************************************************************************)
EXTENDS Integers, Sequences, FiniteSets, TLC

VARIABLES
    focusableItems,       \* var focusableItems = []        (line 25)
    currentlyFocusedItem, \* var currentlyFocusedItem = null (line 27)
    debugMode,            \* var debugMode = false           (line 24)
    neighbours,           \* per item: the four FocusItemIndex fields of FocusableItem
    listeners,            \* items whose element carries the 'focus' listener of line 50
    debugLines,           \* the '.dpad-debug-line' elements in the document
    rect,                 \* per item: what getBoundingClientRect() returns now
    style,                \* per item: display, visibility and tabindex of its element
    lastCall,             \* the call that produced this state: its name and arguments
    result,               \* what that call returned, or "threw"
    focusCalls,           \* the items whose element.focus() that call invoked, in order
    clickCalls,           \* the onItemClickStateChange(state) calls that call made: <<item, state>>
    envChanges,           \* how many layout/style changes the host page has made
    from,                 \* DistanceSpec: the source rectangle
    to,                   \* DistanceSpec: the candidate rectangle
    dist                  \* DistanceSpec: the four distances computed for (from, to)

vars == <<focusableItems, currentlyFocusedItem, debugMode, neighbours, listeners,
          debugLines, rect, style, lastCall, result, focusCalls, clickCalls,
          envChanges, from, to, dist>>

ctlVars == <<focusableItems, currentlyFocusedItem, debugMode, neighbours, listeners,
             debugLines, rect, style, lastCall, result, focusCalls, clickCalls,
             envChanges>>

distVars == <<from, to, dist>>

-----------------------------------------------------------------------------
(* Values *)

Null == "null"
Undefined == "undefined"
Threw == "threw"

None == <<>>
Some(n) == <<n>>

Items == {"A", "B", "C"}

Dirs == {"top", "bottom", "left", "right"}

\* The order in which printDebugLinesForNode visits the four neighbour fields.
DirOrder == <<"top", "bottom", "left", "right">>

Abs(n) == IF n < 0 THEN -n ELSE n

Min2(a, b) == IF a <= b THEN a ELSE b

\* Math.min of three numbers.
Min3(a, b, c) == Min2(a, Min2(b, c))

-----------------------------------------------------------------------------
(* Bounds of the model *)

\* Layout positions of the controller model lie on a grid 0..GridMax in x and y.
GridMax == 1

\* The host page changes the layout or the style of an item at most this often.
MaxEnvChanges == 1

\* DistanceSpec: left/top of a rectangle range over 0..MaxCoord.
MaxCoord == 3

\* DistanceSpec: width/height of a rectangle range over 0..MaxSize.
MaxSize == 2

Rect(l, t, w, h) == [left |-> l, top |-> t, width |-> w, height |-> h]

\* The rectangles an item of the controller model can occupy: 2x2 boxes on a
\* grid of pitch 3, and one empty box (an element without layout).
GridRects == {Rect(3 * x, 3 * y, 2, 2) : x \in 0..GridMax, y \in 0..GridMax}

EmptyRect == Rect(0, 0, 0, 0)

Rects == GridRects \cup {EmptyRect}

\* element.style.display, element.style.visibility, getAttribute('tabindex')
Styles == [display : {"block", "none"}, visibility : {"visible", "hidden"},
           tabindex : {None, Some(-1), Some(0)}]

Shown == [display |-> "block", visibility |-> "visible", tabindex |-> Some(0)]

\* The rectangles of DistanceSpec.
PlaneRects == {Rect(l, t, w, h) : l \in 0..MaxCoord, t \in 0..MaxCoord,
                                  w \in 0..MaxSize, h \in 0..MaxSize}

-----------------------------------------------------------------------------
(* Geometry: getItemMetrics, calcDistance and the four distance functions *)

\* getItemMetrics (lines 599-617), in half units: every field is twice the
\* JavaScript value, so center.x = left + width/2 is the integer 2*left + width.
getItemMetrics(r) ==
    [left   |-> 2 * r.left,
     right  |-> 2 * (r.left + r.width),
     top    |-> 2 * r.top,
     bottom |-> 2 * (r.top + r.height),
     cx     |-> 2 * r.left + r.width,
     cy     |-> 2 * r.top + r.height]

\* The largest k in lo..hi with k * k <= n (hi * hi > n or hi is the answer).
RECURSIVE SqrtSearch(_, _, _)
SqrtSearch(n, lo, hi) ==
    IF lo >= hi THEN lo
    ELSE LET mid == (lo + hi + 1) \div 2
         IN  IF mid * mid <= n THEN SqrtSearch(n, mid, hi)
                               ELSE SqrtSearch(n, lo, mid - 1)

\* floor(sqrt(n)) of a natural number n below 2^30 (the search stays below
\* 2^15, whose square still is a 32-bit integer).
FloorSqrt(n) == SqrtSearch(n, 0, Min2(n, 32767))

\* calcDistance (lines 175-177): Math.floor(Math.sqrt(x*x + y*y)).  The
\* arguments are in half units; the result is in whole units, as in the
\* source: floor(sqrt((x/2)^2 + (y/2)^2)) = floor(floor(sqrt(x^2 + y^2)) / 2).
calcDistance(x, y) == FloorSqrt((x * x) + (y * y)) \div 2

\* Math.atan(num / den) * (180 / Math.PI) for den >= 0, as the interval the
\* result lies in.  IEEE division: 0/0 is NaN, n/0 is +-Infinity, and atan maps
\* NaN to NaN, +-Infinity to +-90 degrees.
atanDegrees(num, den) ==
    IF den = 0
    THEN IF num = 0 THEN "NaN" ELSE IF num > 0 THEN "90" ELSE "-90"
    ELSE IF num = 0 THEN "0" ELSE IF num > 0 THEN "(0,90)" ELSE "(-90,0)"

\* angle >= 0 (false for NaN)
AngleGE0(angle) == angle \in {"0", "(0,90)", "90"}

\* angle <= 180 (false for NaN)
AngleLE180(angle) == angle # "NaN"

\* The gate shared by the four distance functions:
\* !(angle1 >= 0 && angle2 <= 180) rejects (lines 457, 501, 544, 586).
angleGate(main, off1, off2) ==
    AngleGE0(atanDegrees(main, off1)) /\ AngleLE180(atanDegrees(main, off2))

\* A getTopDistance that doubles distance.x the way getRightDistance doubles
\* distance.y.
getTopDistanceDoubling(fromMetrics, toMetrics) ==
    LET y == IF toMetrics.bottom <= fromMetrics.top
             THEN Some(fromMetrics.cy - toMetrics.cy) ELSE None
        x == Min3(Abs(fromMetrics.cx - toMetrics.left),
                  Abs(fromMetrics.cx - toMetrics.cx),
                  Abs(fromMetrics.cx - toMetrics.right)) * 2
    IN  IF y = None THEN None ELSE Some(calcDistance(x, y[1]))

\* getTopDistance (lines 429-462)
getTopDistance(fromMetrics, toMetrics) ==
    LET y == IF toMetrics.bottom <= fromMetrics.top
             THEN Some(fromMetrics.cy - toMetrics.cy) ELSE None
        left == Abs(fromMetrics.cx - toMetrics.left)
        right == Abs(fromMetrics.cx - toMetrics.right)
        x == Min3(Abs(fromMetrics.cx - toMetrics.left),
                  Abs(fromMetrics.cx - toMetrics.cx),
                  Abs(fromMetrics.cx - toMetrics.right))
    IN  IF y = None THEN None
        ELSE IF ~angleGate(y[1], left, right) THEN None
        ELSE Some(calcDistance(x, y[1]))

\* getBottomDistance (lines 472-506)
getBottomDistance(fromMetrics, toMetrics) ==
    LET y == IF fromMetrics.bottom <= toMetrics.top
             THEN Some(toMetrics.cy - fromMetrics.cy) ELSE None
        left == Abs(fromMetrics.cx - toMetrics.left)
        right == Abs(fromMetrics.cx - toMetrics.right)
        x == Min3(Abs(fromMetrics.cx - toMetrics.left),
                  Abs(fromMetrics.cx - toMetrics.cx),
                  Abs(fromMetrics.cx - toMetrics.right))
    IN  IF y = None THEN None
        ELSE IF ~angleGate(y[1], left, right) THEN None
        ELSE Some(calcDistance(x, y[1]))

\* getLeftDistance (lines 516-549)
getLeftDistance(fromMetrics, toMetrics) ==
    LET x == IF toMetrics.right <= fromMetrics.left
             THEN Some(fromMetrics.cx - toMetrics.cx) ELSE None
        top == Abs(fromMetrics.cy - toMetrics.top)
        bottom == Abs(fromMetrics.cy - toMetrics.bottom)
        y == Min3(Abs(fromMetrics.cy - toMetrics.top),
                  Abs(fromMetrics.cy - toMetrics.cy),
                  Abs(fromMetrics.cy - toMetrics.bottom))
    IN  IF x = None THEN None
        ELSE IF ~angleGate(x[1], top, bottom) THEN None
        ELSE Some(calcDistance(x[1], y))

\* A getRightDistance that measures distance.x from the source's right edge.
getRightDistanceFromEdge(fromMetrics, toMetrics) ==
    LET x == IF fromMetrics.right <= toMetrics.left
             THEN Some(toMetrics.cx - fromMetrics.right) ELSE None
        top == Abs(fromMetrics.cy - toMetrics.top)
        bottom == Abs(fromMetrics.cy - toMetrics.bottom)
        y == Min3(Abs(fromMetrics.cy - toMetrics.top),
                  Abs(fromMetrics.cy - toMetrics.cy),
                  Abs(fromMetrics.cy - toMetrics.bottom)) * 2
    IN  IF x = None THEN None
        ELSE IF ~angleGate(x[1], top, bottom) THEN None
        ELSE Some(calcDistance(x[1], y))

\* getRightDistance (lines 559-591): the one direction that doubles distance.y.
getRightDistance(fromMetrics, toMetrics) ==
    LET x == IF fromMetrics.right <= toMetrics.left
             THEN Some(toMetrics.cx - fromMetrics.cx) ELSE None
        top == Abs(fromMetrics.cy - toMetrics.top)
        bottom == Abs(fromMetrics.cy - toMetrics.bottom)
        y == Min3(Abs(fromMetrics.cy - toMetrics.top),
                  Abs(fromMetrics.cy - toMetrics.cy),
                  Abs(fromMetrics.cy - toMetrics.bottom)) * 2
    IN  IF x = None THEN None
        ELSE IF ~angleGate(x[1], top, bottom) THEN None
        ELSE Some(calcDistance(x[1], y))

\* The distance function updateNodeEdges uses for a direction (lines 370-373).
getDistance(d, fromMetrics, toMetrics) ==
    CASE d = "top"    -> getTopDistance(fromMetrics, toMetrics)
      [] d = "bottom" -> getBottomDistance(fromMetrics, toMetrics)
      [] d = "left"   -> getLeftDistance(fromMetrics, toMetrics)
      [] d = "right"  -> getRightDistance(fromMetrics, toMetrics)

\* isFocusable (lines 409-419).  A tabindex attribute is null when absent.
isFocusable(st) ==
    IF st.display = "none" \/ st.visibility = "hidden" THEN FALSE
    ELSE LET tabIndex == IF st.tabindex = None THEN -1 ELSE st.tabindex[1]
         IN  tabIndex > -1

-----------------------------------------------------------------------------
(* The controller's private helpers and the graph build, as operators on   *)
(* the values they read.  env is the record [items, rect, style]: the item *)
(* array and what the elements report at the time of the call.             *)

\* FocusableItem is constructed with its four neighbour indexes unset.
NoNeighbours == [d \in Dirs |-> None]

\* An isFocusableItem whose loop returns after looking at the first position.
isFocusableItemFirstOnly(items, item) == Len(items) > 0 /\ items[1] = item

\* isFocusableItem (lines 34-41)
isFocusableItem(items, item) == \E i \in 1..Len(items) : items[i] = item

\* getFocusableItem (lines 89-95): null at or past the end; focusableItems[index]
\* otherwise, which for a negative index is undefined.
getFocusableItem(items, index) ==
    IF index >= Len(items) THEN Null
    ELSE IF index < 0 THEN Undefined
    ELSE items[index + 1]

\* focusableItems.splice(i): without a count, everything from position i on
\* is removed.
SpliceRest(items, i) == SubSeq(items, 1, i)

\* focusableItems.splice(i, 1) (line 63), i 0-based.
Splice(items, i) == [k \in 1..(Len(items) - 1) |-> IF k <= i THEN items[k] ELSE items[k + 1]]

\* The first position of item in items, 0-based (the loop of lines 61-66).
RECURSIVE IndexFrom(_, _, _)
IndexFrom(items, item, i) ==
    IF i >= Len(items) THEN None
    ELSE IF items[i + 1] = item THEN Some(i)
    ELSE IndexFrom(items, item, i + 1)

\* The only member of a one-element set.  {e : x \in {v}} evaluates v once
\* and binds the value, which is how the loops below keep the value of a
\* JavaScript local instead of recomputing it at every use.
The(S) == CHOOSE x \in S : TRUE

\* A candidate loop whose comparison is turned round: a candidate replaces the
\* choice when its distance is greater than the one held.
RECURSIVE ScanCandidatesFarthest(_, _, _, _, _, _)
ScanCandidatesFarthest(env, currentIndex, d, i, minDist, chosen) ==
    IF i >= Len(env.items) THEN chosen
    ELSE LET currentItem == env.items[currentIndex + 1]
             newItem == env.items[i + 1]
         IN  IF ~isFocusable(env.style[newItem]) \/ newItem = currentItem
             THEN ScanCandidatesFarthest(env, currentIndex, d, i + 1, minDist, chosen)
             ELSE The({ IF distance # None /\ (minDist = None \/ minDist[1] < distance[1])
                        THEN ScanCandidatesFarthest(env, currentIndex, d, i + 1, distance, Some(i))
                        ELSE ScanCandidatesFarthest(env, currentIndex, d, i + 1, minDist, chosen)
                        : distance \in {getDistance(d, getItemMetrics(env.rect[currentItem]),
                                                       getItemMetrics(env.rect[newItem]))} })

\* A candidate loop that treats the item a field already points at like the
\* current item and passes over it.
RECURSIVE ScanCandidatesSkippingLinked(_, _, _, _, _, _)
ScanCandidatesSkippingLinked(env, currentIndex, d, i, minDist, chosen) ==
    IF i >= Len(env.items) THEN chosen
    ELSE LET currentItem == env.items[currentIndex + 1]
             newItem == env.items[i + 1]
         IN  IF \/ ~isFocusable(env.style[newItem])
                \/ newItem = currentItem
                \/ (minDist = None /\ chosen = Some(i))
             THEN ScanCandidatesSkippingLinked(env, currentIndex, d, i + 1, minDist, chosen)
             ELSE The({ IF distance # None /\ (minDist = None \/ minDist[1] > distance[1])
                        THEN ScanCandidatesSkippingLinked(env, currentIndex, d, i + 1, distance, Some(i))
                        ELSE ScanCandidatesSkippingLinked(env, currentIndex, d, i + 1, minDist, chosen)
                        : distance \in {getDistance(d, getItemMetrics(env.rect[currentItem]),
                                                       getItemMetrics(env.rect[newItem]))} })

\* The loop of updateNodeEdges (lines 361-406) for one direction d, from
\* position i on: minDist is min<D>ElementDist (None while undefined) and chosen
\* the index field of the current item.  A candidate replaces the choice when
\* its distance is not null and min is undefined or greater.
RECURSIVE ScanCandidates(_, _, _, _, _, _)
ScanCandidates(env, currentIndex, d, i, minDist, chosen) ==
    IF i >= Len(env.items) THEN chosen
    ELSE LET currentItem == env.items[currentIndex + 1]
             newItem == env.items[i + 1]
         IN  IF ~isFocusable(env.style[newItem]) \/ newItem = currentItem
             THEN ScanCandidates(env, currentIndex, d, i + 1, minDist, chosen)
             ELSE The({ IF distance # None /\ (minDist = None \/ minDist[1] > distance[1])
                        THEN ScanCandidates(env, currentIndex, d, i + 1, distance, Some(i))
                        ELSE ScanCandidates(env, currentIndex, d, i + 1, minDist, chosen)
                        : distance \in {getDistance(d, getItemMetrics(env.rect[currentItem]),
                                                       getItemMetrics(env.rect[newItem]))} })

\* The direction opposite to d.
Opposite(d) ==
    CASE d = "top"    -> "bottom"
      [] d = "bottom" -> "top"
      [] d = "left"   -> "right"
      [] d = "right"  -> "left"

\* An updateNodeEdges that forces symmetry: the item chosen for a direction
\* gets the current item as its neighbour in the opposite direction.
updateNodeEdgesSymmetric(env, nb, currentIndex) ==
    LET currentItem == env.items[currentIndex + 1]
        own == [d \in Dirs |-> ScanCandidates(env, currentIndex, d, 0, None, nb[currentItem][d])]
        Chosen(it, e) == /\ own[e] # None
                         /\ own[e][1] < Len(env.items)
                         /\ env.items[own[e][1] + 1] = it
    IN  [it \in DOMAIN nb |->
            IF it = currentItem THEN own
            ELSE [d \in Dirs |-> IF Chosen(it, Opposite(d)) THEN Some(currentIndex)
                                  ELSE nb[it][d]]]

\* updateNodeEdges (lines 342-407): the neighbour fields of all items after
\* the call.  The four directions are updated independently of one another; a
\* field no candidate writes keeps the value it had.
updateNodeEdges(env, nb, currentIndex) ==
    LET currentItem == env.items[currentIndex + 1]
    IN  [nb EXCEPT ![currentItem] =
            [d \in Dirs |-> ScanCandidates(env, currentIndex, d, 0, None, nb[currentItem][d])]]

\* printDebugLinesForNode (lines 245-306): one line per neighbour field that is
\* not null, in the order top, bottom, left, right.  The neighbour's element
\* is fetched with getFocusableItem(index).getElement(), which throws a
\* TypeError when the index is at or past the end of the array (null).
printDebugLinesForNode(env, index, nb) ==
    LET item == env.items[index + 1]
        Bad(k) == /\ nb[item][DirOrder[k]] # None
                  /\ getFocusableItem(env.items, nb[item][DirOrder[k]][1]) = Null
        stop == IF \E k \in 1..4 : Bad(k)
                THEN CHOOSE k \in 1..4 : Bad(k) /\ \A j \in 1..(k - 1) : ~Bad(j)
                ELSE 5
    IN  [lines |-> {<<item, DirOrder[k]>> : k \in {j \in 1..(stop - 1) : nb[item][DirOrder[j]] # None}},
         threw |-> stop < 5]

\* A build loop that draws the lines of every item it updates, in debug mode
\* or not.
RECURSIVE BuildFromAlwaysDrawing(_, _, _, _, _)
BuildFromAlwaysDrawing(env, debug, i, nb, lines) ==
    IF i >= Len(env.items) THEN [nb |-> nb, lines |-> lines, threw |-> FALSE]
    ELSE IF ~isFocusable(env.style[env.items[i + 1]])
    THEN BuildFromAlwaysDrawing(env, debug, i + 1, nb, lines)
    ELSE The({ The({ IF drawn.threw
                     THEN [nb |-> nb1, lines |-> lines \cup drawn.lines, threw |-> TRUE]
                     ELSE BuildFromAlwaysDrawing(env, debug, i + 1, nb1, lines \cup drawn.lines)
                     : drawn \in {printDebugLinesForNode(env, i, nb1)} })
               : nb1 \in {updateNodeEdges(env, nb, i)} })

\* The loop of updateFocusGraph (lines 216-228) from position i on: nb is the
\* neighbour fields and lines the overlay so far.  A TypeError thrown while
\* drawing ends the loop there.
RECURSIVE BuildFrom(_, _, _, _, _)
BuildFrom(env, debug, i, nb, lines) ==
    IF i >= Len(env.items) THEN [nb |-> nb, lines |-> lines, threw |-> FALSE]
    ELSE IF ~isFocusable(env.style[env.items[i + 1]])
    THEN BuildFrom(env, debug, i + 1, nb, lines)
    ELSE The({ IF ~debug THEN BuildFrom(env, debug, i + 1, nb1, lines)
               ELSE The({ IF drawn.threw
                          THEN [nb |-> nb1, lines |-> lines \cup drawn.lines, threw |-> TRUE]
                          ELSE BuildFrom(env, debug, i + 1, nb1, lines \cup drawn.lines)
                          : drawn \in {printDebugLinesForNode(env, i, nb1)} })
               : nb1 \in {updateNodeEdges(env, nb, i)} })

\* updateFocusGraph (lines 210-229): clearDebugLines (lines 231-236) empties
\* the overlay, then every focusable item has its edges updated and, in debug
\* mode, its lines drawn.
updateFocusGraph(env, debug, nb) == BuildFrom(env, debug, 0, nb, {})

\* A setCurrentFocusItem that returns early, without calling focus(), when the
\* item at the index is the one already focused.
setCurrentFocusItemQuiet(items, focused, itemIndex) ==
    LET focusableItem == getFocusableItem(items, itemIndex)
    IN  IF focusableItem = Null
        THEN [focused |-> Null, focusCalls |-> <<>>, result |-> Undefined]
        ELSE IF focusableItem = Undefined
        THEN [focused |-> Undefined, focusCalls |-> <<>>, result |-> Threw]
        ELSE IF focusableItem = focused
        THEN [focused |-> focused, focusCalls |-> <<>>, result |-> Undefined]
        ELSE [focused |-> focusableItem, focusCalls |-> <<focusableItem>>,
              result |-> Undefined]

\* setCurrentFocusItem (lines 115-121): the focused item is overwritten before
\* it is tested; undefined !== null, so undefined.getElement() throws.
setCurrentFocusItem(items, focused, itemIndex) ==
    LET focusableItem == getFocusableItem(items, itemIndex)
    IN  IF focusableItem = Null
        THEN [focused |-> Null, focusCalls |-> <<>>, result |-> Undefined]
        ELSE IF focusableItem = Undefined
        THEN [focused |-> Undefined, focusCalls |-> <<>>, result |-> Threw]
        ELSE [focused |-> focusableItem, focusCalls |-> <<focusableItem>>,
              result |-> Undefined]

\* The neighbour field moveFocus reads for a direction vector (lines 135-152):
\* the name of the field, or None when neither component is zero.
directionField(direction) ==
    IF direction.y = 0
    THEN IF direction.x > 0 THEN Some("right") ELSE Some("left")
    ELSE IF direction.x = 0
    THEN IF direction.y > 0 THEN Some("top") ELSE Some("bottom")
    ELSE None

\* A moveFocus that initialises the focus when nothing is focused: it focuses
\* the first item of the array.
moveFocusInitialising(items, focused, nb, direction) ==
    IF focused = Null \/ focused = Undefined
    THEN setCurrentFocusItem(items, focused, 0)
    ELSE LET field == directionField(direction)
             nextItemIndex == IF field = None THEN None ELSE nb[focused][field[1]]
         IN  IF nextItemIndex # None
             THEN setCurrentFocusItem(items, focused, nextItemIndex[1])
             ELSE [focused |-> focused, focusCalls |-> <<>>, result |-> Undefined]

\* moveFocus (lines 128-157).  !currentlyFocusedItem holds for null and for
\* undefined.  The neighbour index is read from the focused item object,
\* whether or not that item is still in the array.
moveFocusOn(items, focused, nb, direction) ==
    IF focused = Null \/ focused = Undefined
    THEN [focused |-> focused, focusCalls |-> <<>>, result |-> Undefined]
    ELSE LET field == directionField(direction)
             nextItemIndex == IF field = None THEN None ELSE nb[focused][field[1]]
         IN  IF nextItemIndex # None
             THEN setCurrentFocusItem(items, focused, nextItemIndex[1])
             ELSE [focused |-> focused, focusCalls |-> <<>>, result |-> Undefined]

\* A moveFocus that calls updateFocusGraph first and reads the rebuilt fields.
moveFocusRebuilding(env, focused, nb, direction) ==
    LET built == updateFocusGraph(env, FALSE, nb).nb
    IN  [nb |-> built, out |-> moveFocusOn(env.items, focused, built, direction)]

\* moveFocus as the controller calls it: no neighbour field is written, the
\* fields are read as the last build left them.
moveFocus(env, focused, nb, direction) ==
    [nb |-> nb, out |-> moveFocusOn(env.items, focused, nb, direction)]

-----------------------------------------------------------------------------
(* The controller as a state machine *)

Env == [items |-> focusableItems, rect |-> rect, style |-> style]

Call(op, args) == [op |-> op, args |-> args]

\* The items the host of Spec registers, and those of GraphSpec.
HostItems == {"A", "B"}

\* The layouts the page of Spec starts with: A in the top left cell, B in the
\* cell right of it or in the cell below it (C is never registered there).
Layouts ==
    {[it \in Items |-> IF it = "A" THEN Rect(0, 0, 2, 2) ELSE r] :
        r \in {Rect(3, 0, 2, 2), Rect(0, 3, 2, 2)}}

\* Layout(a, b, c): A, B and C in the grid cells a, b and c (<<column, row>>).
Cell(c) == Rect(3 * c[1], 3 * c[2], 2, 2)

Layout(a, b, c) ==
    [it \in Items |-> IF it = "A" THEN Cell(a) ELSE IF it = "B" THEN Cell(b) ELSE Cell(c)]

\* The layouts the page of GraphSpec starts with: B right of A with C below B,
\* B and C both in the cell right of A, C between A and B in a column, and
\* A right of B with C below A.
GraphLayouts ==
    {Layout(<<0, 0>>, <<1, 0>>, <<1, 1>>),
     Layout(<<0, 0>>, <<1, 0>>, <<1, 0>>),
     Layout(<<0, 0>>, <<0, 1>>, <<1, 1>>),
     Layout(<<1, 0>>, <<0, 0>>, <<1, 1>>)}

\* new FocusController() (lines 21-27), the items not yet registered, every
\* element laid out, visible and with tabindex 0.
InitWith(layouts) ==
    /\ focusableItems = <<>>
    /\ currentlyFocusedItem = Null
    /\ debugMode = FALSE
    /\ neighbours = [it \in Items |-> NoNeighbours]
    /\ listeners = {}
    /\ debugLines = {}
    /\ rect \in layouts
    /\ style = [it \in Items |-> Shown]
    /\ lastCall = Call("new", <<>>)
    /\ result = Undefined
    /\ focusCalls = <<>>
    /\ clickCalls = <<>>
    /\ envChanges = 0

\* DistanceSpec's variables while the controller runs.
NoPair ==
    /\ from = EmptyRect
    /\ to = EmptyRect
    /\ dist = NoNeighbours

Init == InitWith(Layouts) /\ NoPair

\* addFocusableItem (lines 195-203) with pushFocusableItem (lines 48-54).
\* Neither branch returns a value.
AddFocusableItem(item) ==
    /\ IF isFocusableItem(focusableItems, item)
       THEN UNCHANGED <<focusableItems, listeners>>
       ELSE /\ focusableItems' = Append(focusableItems, item)
            /\ listeners' = listeners \cup {item}
    /\ lastCall' = Call("addFocusableItem", <<item>>)
    /\ result' = Undefined
    /\ focusCalls' = <<>>
    /\ clickCalls' = <<>>
    /\ UNCHANGED <<currentlyFocusedItem, debugMode, neighbours, debugLines, rect,
                   style, envChanges>>

\* removeFocusableItem (lines 60-68)
RemoveFocusableItem(item) ==
    LET found == IndexFrom(focusableItems, item, 0)
    IN  /\ IF found # None
           THEN /\ focusableItems' = Splice(focusableItems, found[1])
                /\ result' = "true"
           ELSE /\ UNCHANGED focusableItems
                /\ result' = "false"
        /\ lastCall' = Call("removeFocusableItem", <<item>>)
        /\ focusCalls' = <<>>
        /\ clickCalls' = <<>>
        /\ UNCHANGED <<currentlyFocusedItem, debugMode, neighbours, listeners,
                       debugLines, rect, style, envChanges>>

\* A removeAllFocusableItems that also gives up the focus.
RemoveAllFocusableItemsAndFocus ==
    /\ focusableItems' = <<>>
    /\ currentlyFocusedItem' = Null
    /\ lastCall' = Call("removeAllFocusableItems", <<>>)
    /\ result' = Undefined
    /\ focusCalls' = <<>>
    /\ clickCalls' = <<>>
    /\ UNCHANGED <<debugMode, neighbours, listeners, debugLines, rect, style,
                   envChanges>>

\* removeAllFocusableItems (lines 74-76)
RemoveAllFocusableItems ==
    /\ focusableItems' = <<>>
    /\ lastCall' = Call("removeAllFocusableItems", <<>>)
    /\ result' = Undefined
    /\ focusCalls' = <<>>
    /\ clickCalls' = <<>>
    /\ UNCHANGED <<currentlyFocusedItem, debugMode, neighbours, listeners,
                   debugLines, rect, style, envChanges>>

\* setCurrentFocusItem (lines 115-121) called by the host with any index.
SetCurrentFocusItem(itemIndex) ==
    LET out == setCurrentFocusItem(focusableItems, currentlyFocusedItem, itemIndex)
    IN  /\ currentlyFocusedItem' = out.focused
        /\ focusCalls' = out.focusCalls
        /\ clickCalls' = <<>>
        /\ result' = out.result
        /\ lastCall' = Call("setCurrentFocusItem", <<itemIndex>>)
        /\ UNCHANGED <<focusableItems, debugMode, neighbours, listeners,
                       debugLines, rect, style, envChanges>>

\* moveFocus (lines 128-157) with a direction vector {x, y}.
MoveFocus(direction) ==
    LET moved == moveFocus(Env, currentlyFocusedItem, neighbours, direction)
    IN  /\ currentlyFocusedItem' = moved.out.focused
        /\ focusCalls' = moved.out.focusCalls
        /\ clickCalls' = <<>>
        /\ result' = moved.out.result
        /\ neighbours' = moved.nb
        /\ lastCall' = Call("moveFocus", <<direction.x, direction.y>>)
        /\ UNCHANGED <<focusableItems, debugMode, listeners,
                       debugLines, rect, style, envChanges>>

\* updateFocusGraph (lines 210-229) called by the host.
UpdateFocusGraph ==
    \E out \in {updateFocusGraph(Env, debugMode, neighbours)} :
        /\ neighbours' = out.nb
        /\ debugLines' = out.lines
        /\ result' = IF out.threw THEN Threw ELSE Undefined
        /\ lastCall' = Call("updateFocusGraph", <<>>)
        /\ focusCalls' = <<>>
        /\ clickCalls' = <<>>
        /\ UNCHANGED <<focusableItems, currentlyFocusedItem, debugMode, listeners,
                       rect, style, envChanges>>

\* toggleDebugMode (lines 167-170)
ToggleDebugMode ==
    \E out \in {updateFocusGraph(Env, ~debugMode, neighbours)} :
        /\ debugMode' = ~debugMode
        /\ neighbours' = out.nb
        /\ debugLines' = out.lines
        /\ result' = IF out.threw THEN Threw ELSE Undefined
        /\ lastCall' = Call("toggleDebugMode", <<>>)
        /\ focusCalls' = <<>>
        /\ clickCalls' = <<>>
        /\ UNCHANGED <<focusableItems, currentlyFocusedItem, listeners,
                       rect, style, envChanges>>

\* The 'focus' listener of lines 50-52, run when the element of an item that
\* was ever pushed receives the browser's focus (a click, the Tab key).  The
\* browser gives focus only to a rendered element that has a tabindex.
ElementFocusEvent(item) ==
    /\ item \in listeners
    /\ style[item].display # "none"
    /\ style[item].visibility # "hidden"
    /\ style[item].tabindex # None
    /\ currentlyFocusedItem' = item
    /\ lastCall' = Call("focus event", <<item>>)
    /\ result' = Undefined
    /\ focusCalls' = <<>>
    /\ clickCalls' = <<>>
    /\ UNCHANGED <<focusableItems, debugMode, neighbours, listeners,
                   debugLines, rect, style, envChanges>>

\* The page lays an element out elsewhere: getBoundingClientRect (line 602)
\* reports the new rectangle from now on.
ChangeLayout(item, r) ==
    /\ envChanges < MaxEnvChanges
    /\ r # rect[item]
    /\ rect' = [rect EXCEPT ![item] = r]
    /\ envChanges' = envChanges + 1
    /\ lastCall' = Call("layout", <<item>>)
    /\ result' = Undefined
    /\ focusCalls' = <<>>
    /\ clickCalls' = <<>>
    /\ UNCHANGED <<focusableItems, currentlyFocusedItem, debugMode, neighbours,
                   listeners, debugLines, style>>

\* The styles that differ from st in exactly one of the three attributes.
StyleChanges(st) ==
    {s \in Styles : Cardinality({a \in {"display", "visibility", "tabindex"} : s[a] # st[a]}) = 1}

\* The page changes display, visibility or tabindex of an element (read by
\* isFocusable, lines 412-416).
ChangeStyle(item, st) ==
    /\ envChanges < MaxEnvChanges
    /\ st \in StyleChanges(style[item])
    /\ style' = [style EXCEPT ![item] = st]
    /\ envChanges' = envChanges + 1
    /\ lastCall' = Call("style", <<item>>)
    /\ result' = Undefined
    /\ focusCalls' = <<>>
    /\ clickCalls' = <<>>
    /\ UNCHANGED <<focusableItems, currentlyFocusedItem, debugMode, neighbours,
                   listeners, debugLines, rect>>

\* The indexes a host passes to setCurrentFocusItem: one below and one past
\* every position the array can have.
Indexes == (-1)..Cardinality(HostItems)

\* The direction vectors a host passes to moveFocus.
Directions == [x : {-1, 0, 1}, y : {-1, 0, 1}]

Next ==
    \/ \E item \in HostItems : AddFocusableItem(item) /\ UNCHANGED distVars
    \/ \E item \in HostItems : RemoveFocusableItem(item) /\ UNCHANGED distVars
    \/ RemoveAllFocusableItems /\ UNCHANGED distVars
    \/ \E itemIndex \in Indexes : SetCurrentFocusItem(itemIndex) /\ UNCHANGED distVars
    \/ \E direction \in Directions : MoveFocus(direction) /\ UNCHANGED distVars
    \/ UpdateFocusGraph /\ UNCHANGED distVars
    \/ ToggleDebugMode /\ UNCHANGED distVars
    \/ \E item \in HostItems : ElementFocusEvent(item) /\ UNCHANGED distVars
    \/ \E item \in HostItems, r \in Rects : ChangeLayout(item, r) /\ UNCHANGED distVars
    \/ \E item \in HostItems, st \in Styles : ChangeStyle(item, st) /\ UNCHANGED distVars

Spec == Init /\ [][Next]_vars

-----------------------------------------------------------------------------
(* GraphSpec: the registration and graph-build operations of the same      *)
(* controller over three items and every grid layout; no focus is set, so  *)
(* currentlyFocusedItem stays null.                                        *)

GraphInit == InitWith(GraphLayouts) /\ NoPair

GraphNext ==
    \/ \E item \in Items : AddFocusableItem(item) /\ UNCHANGED distVars
    \/ \E item \in Items : RemoveFocusableItem(item) /\ UNCHANGED distVars
    \/ RemoveAllFocusableItems /\ UNCHANGED distVars
    \/ UpdateFocusGraph /\ UNCHANGED distVars
    \/ ToggleDebugMode /\ UNCHANGED distVars

GraphSpec == GraphInit /\ [][GraphNext]_vars

-----------------------------------------------------------------------------
(* KeySpec: the controller driven by the keyboard as well.  onKeyDown and  *)
(* onKeyUp are the document's 'keydown' and 'keyup' listeners of lines     *)
(* 180-186; the page keeps its layout and its styles.                      *)

\* The direction vector onKeyDown hands to moveFocus for an arrow key
\* (lines 631-650): Left, Up, Right, Down.
keyDirection(keyCode) ==
    CASE keyCode = 37 -> [x |-> -1, y |-> 0]
      [] keyCode = 38 -> [x |-> 0, y |-> 1]
      [] keyCode = 39 -> [x |-> 1, y |-> 0]
      [] keyCode = 40 -> [x |-> 0, y |-> -1]

\* The key codes the host page delivers: Tab, Enter, the four arrows and a
\* key the switch of onKeyDown has no case for.
KeyCodes == {9, 13, 37, 38, 39, 40, 65}

\* The click-state call of the Enter key (lines 654-656 and 673-675): made on
\* the focused item when getCurrentlyFocusedItem() is truthy.
clickStateChange(focused, state) ==
    IF focused = Null \/ focused = Undefined THEN <<>> ELSE << <<focused, state>> >>

\* onKeyDown (lines 624-659)
OnKeyDown(keyCode) ==
    /\ IF keyCode \in {37, 38, 39, 40}
       THEN LET moved == moveFocus(Env, currentlyFocusedItem, neighbours, keyDirection(keyCode))
            IN  /\ currentlyFocusedItem' = moved.out.focused
                /\ focusCalls' = moved.out.focusCalls
                /\ result' = moved.out.result
                /\ neighbours' = moved.nb
                /\ clickCalls' = <<>>
       ELSE /\ clickCalls' = IF keyCode = 13 THEN clickStateChange(currentlyFocusedItem, TRUE)
                             ELSE <<>>
            /\ focusCalls' = <<>>
            /\ result' = Undefined
            /\ UNCHANGED <<currentlyFocusedItem, neighbours>>
    /\ lastCall' = Call("onKeyDown", <<keyCode>>)
    /\ UNCHANGED <<focusableItems, debugMode, listeners, debugLines, rect, style,
                   envChanges>>

\* onKeyUp (lines 666-678)
OnKeyUp(keyCode) ==
    /\ clickCalls' = IF keyCode = 13 THEN clickStateChange(currentlyFocusedItem, FALSE)
                     ELSE <<>>
    /\ focusCalls' = <<>>
    /\ result' = Undefined
    /\ lastCall' = Call("onKeyUp", <<keyCode>>)
    /\ UNCHANGED <<focusableItems, currentlyFocusedItem, debugMode, neighbours,
                   listeners, debugLines, rect, style, envChanges>>

KeyNext ==
    \/ \E item \in HostItems : AddFocusableItem(item) /\ UNCHANGED distVars
    \/ \E item \in HostItems : RemoveFocusableItem(item) /\ UNCHANGED distVars
    \/ RemoveAllFocusableItems /\ UNCHANGED distVars
    \/ \E itemIndex \in Indexes : SetCurrentFocusItem(itemIndex) /\ UNCHANGED distVars
    \/ \E direction \in Directions : MoveFocus(direction) /\ UNCHANGED distVars
    \/ UpdateFocusGraph /\ UNCHANGED distVars
    \/ ToggleDebugMode /\ UNCHANGED distVars
    \/ \E item \in HostItems : ElementFocusEvent(item) /\ UNCHANGED distVars
    \/ \E keyCode \in KeyCodes : OnKeyDown(keyCode) /\ UNCHANGED distVars
    \/ \E keyCode \in KeyCodes : OnKeyUp(keyCode) /\ UNCHANGED distVars

KeySpec == Init /\ [][KeyNext]_vars

-----------------------------------------------------------------------------
(* DistanceSpec: the four distance functions applied to one pair of        *)
(* rectangles drawn from PlaneRects.                                       *)

DistanceInit ==
    /\ InitWith({[it \in Items |-> EmptyRect]})
    /\ from \in PlaneRects
    /\ to \in PlaneRects
    /\ dist = NoNeighbours

\* updateNodeEdges' four calls of lines 370-373 on the metrics of the pair.
ComputeDistances ==
    /\ dist = NoNeighbours
    /\ lastCall.op = "new"
    /\ dist' = [d \in Dirs |-> getDistance(d, getItemMetrics(from), getItemMetrics(to))]
    /\ lastCall' = Call("distances", <<>>)
    /\ UNCHANGED <<focusableItems, currentlyFocusedItem, debugMode, neighbours,
                   listeners, debugLines, rect, style, result, focusCalls,
                   clickCalls, envChanges, from, to>>

DistanceNext == ComputeDistances

DistanceSpec == DistanceInit /\ [][DistanceNext]_vars

-----------------------------------------------------------------------------
(* Vocabulary of the claims, stated on rectangles in whole units and        *)
(* independently of the loops above.                                        *)

Registered(item) == \E i \in 1..Len(focusableItems) : focusableItems[i] = item

\* Hidden, or without a non-negative tabindex.
Eligible(item) ==
    /\ style[item].display # "none"
    /\ style[item].visibility # "hidden"
    /\ style[item].tabindex # None
    /\ style[item].tabindex[1] >= 0

\* The item at a 0-based array position, for a position inside the array.
ItemAt(index) == focusableItems[index + 1]

InRange(index) == index >= 0 /\ index < Len(focusableItems)

\* The forward edge-ordering test of direction d from rectangle a to rectangle b.
ForwardEdge(d, a, b) ==
    CASE d = "right"  -> b.left >= a.left + a.width
      [] d = "left"   -> b.left + b.width <= a.left
      [] d = "bottom" -> a.top + a.height <= b.top
      [] d = "top"    -> b.top + b.height <= a.top

\* The array positions of the candidates of item in direction d: the other
\* eligible items for which the direction's distance is not null.
CandidatesOf(item, d) ==
    {i \in 0..(Len(focusableItems) - 1) :
        /\ ItemAt(i) # item
        /\ Eligible(ItemAt(i))
        /\ getDistance(d, getItemMetrics(rect[item]), getItemMetrics(rect[ItemAt(i)])) # None}

\* The neighbour fields a build over the current item set, geometry and
\* eligibility gives to items that never had a neighbour.
FreshGraph == updateFocusGraph(Env, FALSE, [it \in Items |-> NoNeighbours]).nb

\* The neighbour field the arrow keys read: Left, Up, Right, Down
\* (onKeyDown, lines 631-650).
CardinalVectors == {<<-1, 0>>, <<0, 1>>, <<1, 0>>, <<0, -1>>}

CardinalField(v) ==
    CASE v = <<-1, 0>> -> "left"
      [] v = <<0, 1>>  -> "top"
      [] v = <<1, 0>>  -> "right"
      [] v = <<0, -1>> -> "bottom"

\* This step is a call of moveFocus in a cardinal direction with an item focused.
CardinalMove ==
    /\ lastCall'.op = "moveFocus"
    /\ lastCall'.args \in CardinalVectors
    /\ currentlyFocusedItem \in Items

\* The state is the one a build that returned has just produced.
JustBuilt ==
    /\ lastCall.op \in {"updateFocusGraph", "toggleDebugMode"}
    /\ result # Threw

-----------------------------------------------------------------------------
(* C1 *)

-----------------------------------------------------------------------------
(* C2 *)

\* C2 as claimed: with a registered item focused and no eligible neighbour
\* candidate for it in the direction, under the current items, geometry and
\* eligibility, moveFocus keeps the focus, calls no focus() and does not throw.
C2_NoNeighbourNoMove ==
    [][(/\ CardinalMove
        /\ Registered(currentlyFocusedItem)
        /\ CandidatesOf(currentlyFocusedItem, CardinalField(lastCall'.args)) = {})
       => /\ currentlyFocusedItem' = currentlyFocusedItem
          /\ focusCalls' = <<>>
          /\ result' # Threw]_vars

\* The same claim for the moves that directly follow a build that returned:
\* it fails there too, so the fields a build leaves set are what breaks it,
\* not only the absence of a build in moveFocus.
C2_NoNeighbourNoMoveAfterBuild ==
    [][(/\ CardinalMove
        /\ JustBuilt
        /\ Registered(currentlyFocusedItem)
        /\ Eligible(currentlyFocusedItem)
        /\ CandidatesOf(currentlyFocusedItem, CardinalField(lastCall'.args)) = {})
       => /\ currentlyFocusedItem' = currentlyFocusedItem
          /\ focusCalls' = <<>>
          /\ result' # Threw]_vars

-----------------------------------------------------------------------------
(* C3 *)

\* C3 as claimed: setCurrentFocusItem with an index below 0 or at or past the
\* item count keeps currentlyFocusedItem, calls no focus() and does not throw.
C3_OutOfRangeSetFocusIsNoOp ==
    [][(/\ lastCall'.op = "setCurrentFocusItem"
        /\ ~InRange(lastCall'.args[1]))
       => /\ currentlyFocusedItem' = currentlyFocusedItem
          /\ focusCalls' = <<>>
          /\ result' # Threw]_vars

-----------------------------------------------------------------------------
(* C4 *)

\* C4 as claimed: the controller starts unfocused, and once an item is focused
\* no step leaves currentlyFocusedItem without an item.
C4_FocusNeverLost ==
    /\ currentlyFocusedItem = Null
    /\ [][(currentlyFocusedItem \in Items) => (currentlyFocusedItem' \in Items)]_vars

-----------------------------------------------------------------------------
(* C5 *)

\* C5 as claimed: every neighbour field of every registered item is unset or
\* the position of a registered item other than the item itself.
C5_NeighboursAreOtherRegisteredItems ==
    \A item \in Items : \A d \in Dirs :
        (Registered(item) /\ neighbours[item][d] # None)
        => /\ InRange(neighbours[item][d][1])
           /\ ItemAt(neighbours[item][d][1]) # item

-----------------------------------------------------------------------------
(* C6 *)

\* C6 as claimed: right after a build, no neighbour field of a registered item
\* points at an item that is ineligible now, and a registered item that is
\* ineligible now has all four fields unset.
C6_BuildExcludesIneligibleItems ==
    JustBuilt =>
        \A item \in Items : Registered(item) =>
            /\ \A d \in Dirs :
                  (neighbours[item][d] # None /\ InRange(neighbours[item][d][1]))
                  => Eligible(ItemAt(neighbours[item][d][1]))
            /\ (~Eligible(item) => neighbours[item] = NoNeighbours)

-----------------------------------------------------------------------------
(* C7 *)

\* C7 as claimed: right after a build, for every eligible registered item and
\* every direction, the field is unset when the direction has no candidate, and
\* a field that is set is the position of an item that passes the direction's
\* forward edge-ordering test against the current rectangles.
C7_BuildNeighbourIsForward ==
    JustBuilt =>
        \A item \in Items : (Registered(item) /\ Eligible(item)) =>
            \A d \in Dirs :
                /\ (CandidatesOf(item, d) = {} => neighbours[item][d] = None)
                /\ (neighbours[item][d] # None
                    => /\ InRange(neighbours[item][d][1])
                       /\ ForwardEdge(d, rect[item], rect[ItemAt(neighbours[item][d][1])]))

-----------------------------------------------------------------------------
(* C8 *)

\* The distance of direction d from item to the item at position i.
DistanceTo(item, d, i) ==
    getDistance(d, getItemMetrics(rect[item]), getItemMetrics(rect[ItemAt(i)]))[1]

\* The first position, in array order, among the candidates of least distance.
NearestFirst(item, d) ==
    CHOOSE i \in CandidatesOf(item, d) :
        \A j \in CandidatesOf(item, d) :
            \/ DistanceTo(item, d, i) < DistanceTo(item, d, j)
            \/ (DistanceTo(item, d, i) = DistanceTo(item, d, j) /\ i <= j)

\* C8 as claimed: after a graph build, every eligible registered item holds, in
\* every direction that has a candidate, the position of the candidate of least
\* distance, the first in array order among equals.
C8_BuildChoosesNearestFirst ==
    lastCall.op \in {"updateFocusGraph", "toggleDebugMode"} =>
        \A item \in Items : (Registered(item) /\ Eligible(item)) =>
            \A d \in Dirs :
                CandidatesOf(item, d) # {}
                => neighbours[item][d] = Some(NearestFirst(item, d))

\* The same for a build that returned (no TypeError from the debug overlay).
C8_ReturnedBuildChoosesNearestFirst ==
    JustBuilt =>
        \A item \in Items : (Registered(item) /\ Eligible(item)) =>
            \A d \in Dirs :
                CandidatesOf(item, d) # {}
                => neighbours[item][d] = Some(NearestFirst(item, d))

-----------------------------------------------------------------------------
(* C9 and C10: the distance functions on the pair (from, to) of DistanceSpec, *)
(* with A = from and B = to.  Centres are taken in half units (twice the      *)
(* value), so that a centre at a half integer stays an integer.               *)

Computed == lastCall.op = "distances"

CenterX2(r) == 2 * r.left + r.width
CenterY2(r) == 2 * r.top + r.height

\* r = floor(sqrt(dx^2 + dy^2)) for dx = dx2 / 2 and dy = dy2 / 2.
IsFloorOfRoot(r, dx2, dy2) ==
    /\ 4 * r * r <= dx2 * dx2 + dy2 * dy2
    /\ dx2 * dx2 + dy2 * dy2 < 4 * (r + 1) * (r + 1)

\* min(|A.center.y - B.top|, |A.center.y - B.center.y|, |A.center.y - B.bottom|), twice.
VerticalOffset2 ==
    Min3(Abs(CenterY2(from) - 2 * to.top),
         Abs(CenterY2(from) - CenterY2(to)),
         Abs(CenterY2(from) - 2 * (to.top + to.height)))

\* min(|A.center.x - B.left|, |A.center.x - B.center.x|, |A.center.x - B.right|), twice.
HorizontalOffset2 ==
    Min3(Abs(CenterX2(from) - 2 * to.left),
         Abs(CenterX2(from) - CenterX2(to)),
         Abs(CenterX2(from) - 2 * (to.left + to.width)))

\* C9 as claimed, for rectangles of positive width and height (where no angle
\* is 0/0): for B.left >= A.right the right distance is
\* floor(sqrt(dx^2 + dy^2)) with dx = B.center.x - A.right and dy twice the
\* least vertical offset; for B.left < A.right it is null.
C9_RightDistanceFromRightEdge ==
    (Computed /\ from.width > 0 /\ from.height > 0 /\ to.width > 0 /\ to.height > 0) =>
        IF to.left >= from.left + from.width
        THEN /\ dist["right"] # None
             /\ IsFloorOfRoot(dist["right"][1],
                              CenterX2(to) - 2 * (from.left + from.width),
                              2 * VerticalOffset2)
        ELSE dist["right"] = None

\* 0/0 in an angle of the right direction: B.center.x = A.center.x with
\* A.center.y on B's top or bottom edge.
RightAngleIsNaN ==
    /\ CenterX2(to) = CenterX2(from)
    /\ \/ CenterY2(from) = 2 * to.top
       \/ CenterY2(from) = 2 * (to.top + to.height)

\* C9 as amended: for B.left >= A.right the right distance is
\* floor(sqrt(dx^2 + dy^2)) with dx = B.center.x - A.center.x and dy twice the
\* least vertical offset, except that it is null when dx = 0 and A.center.y
\* lies on B's top or bottom edge (atan(0/0) is NaN and fails the gate); for
\* B.left < A.right it is null.
C9_RightDistanceFromCentre ==
    Computed =>
        IF to.left >= from.left + from.width /\ ~RightAngleIsNaN
        THEN /\ dist["right"] # None
             /\ IsFloorOfRoot(dist["right"][1],
                              CenterX2(to) - CenterX2(from),
                              2 * VerticalOffset2)
        ELSE dist["right"] = None

\* A right distance was computed for a source of positive width and a
\* candidate off its axis, where the two readings of dx and the doubling of dy
\* all change the result.
C9_Witness ==
    /\ Computed
    /\ to.left >= from.left + from.width
    /\ from.width > 0
    /\ VerticalOffset2 > 0
    /\ dist["right"] # None
    /\ ~IsFloorOfRoot(dist["right"][1], CenterX2(to) - 2 * (from.left + from.width),
                      2 * VerticalOffset2)
    /\ ~IsFloorOfRoot(dist["right"][1], CenterX2(to) - CenterX2(from), VerticalOffset2)

\* C10: the left, bottom and top distances are non-null only under their
\* edge-ordering test and are then floor(sqrt(dx^2 + dy^2)) of the centre
\* difference on the axis and the least offset, taken once, off the axis; the
\* right distance is the only one that takes the least offset twice.
C10_LeftBottomTopDistances ==
    Computed =>
        /\ dist["left"] # None =>
              /\ to.left + to.width <= from.left
              /\ IsFloorOfRoot(dist["left"][1], CenterX2(from) - CenterX2(to), VerticalOffset2)
        /\ dist["bottom"] # None =>
              /\ from.top + from.height <= to.top
              /\ IsFloorOfRoot(dist["bottom"][1], HorizontalOffset2, CenterY2(to) - CenterY2(from))
        /\ dist["top"] # None =>
              /\ to.top + to.height <= from.top
              /\ IsFloorOfRoot(dist["top"][1], HorizontalOffset2, CenterY2(from) - CenterY2(to))
        /\ dist["right"] # None =>
              IsFloorOfRoot(dist["right"][1], CenterX2(to) - CenterX2(from), 2 * VerticalOffset2)

\* A left and a top distance were computed for a candidate off both axes,
\* where taking an offset twice would change each of the two results.
C10_Witness ==
    /\ Computed
    /\ dist["left"] # None
    /\ dist["top"] # None
    /\ ~IsFloorOfRoot(dist["left"][1], CenterX2(from) - CenterX2(to), 2 * VerticalOffset2)
    /\ ~IsFloorOfRoot(dist["top"][1], 2 * HorizontalOffset2, CenterY2(from) - CenterY2(to))

-----------------------------------------------------------------------------
(* C11 *)

\* The rectangles of DistanceSpec that have positive width and height.
PositiveRects == {r \in PlaneRects : r.width > 0 /\ r.height > 0}

\* C11 as claimed: there are rectangles A and B of positive width and height
\* and a direction such that B passes the direction's forward edge-ordering
\* test from A and the direction's distance function still rejects B (the gate
\* angle1 >= 0 and angle2 <= 180 fails).  Stated where the distance functions
\* have run.
C11_AngleGateRejectsSomeForwardCandidate ==
    Computed =>
        \E a \in PositiveRects, b \in PositiveRects, d \in Dirs :
            /\ ForwardEdge(d, a, b)
            /\ getDistance(d, getItemMetrics(a), getItemMetrics(b)) = None

\* What the distance functions do instead: between rectangles of positive
\* width and height the gate rejects nothing, a candidate that passes the
\* forward edge-ordering test always gets a distance.
C11_ForwardCandidateIsNeverGated ==
    (Computed /\ from \in PositiveRects /\ to \in PositiveRects) =>
        \A d \in Dirs : ForwardEdge(d, from, to) => dist[d] # None

\* The four distances were computed for a candidate far off the axis of a
\* direction whose forward test it passes: one unit to the right, three down.
C11_LateralCandidateAccepted ==
    /\ Computed
    /\ from = Rect(0, 0, 1, 1)
    /\ to = Rect(1, 3, 1, 1)
    /\ dist["right"] # None

-----------------------------------------------------------------------------
(* C12: the scenario A(0,0,100,100), B(150,0,100,100), C(150,200,100,100) *)

ExampleLayout ==
    [it \in Items |-> IF it = "A" THEN Rect(0, 0, 100, 100)
                      ELSE IF it = "B" THEN Rect(150, 0, 100, 100)
                      ELSE Rect(150, 200, 100, 100)]

ExampleInit == InitWith({ExampleLayout}) /\ NoPair

\* The registration and graph-build operations over the scenario's layout.
ExampleSpec == ExampleInit /\ [][GraphNext]_vars

\* This step is a graph build over A, B, C registered in that order, none of
\* the items holding a neighbour assignment yet.
FirstBuildOfExample ==
    /\ lastCall'.op \in {"updateFocusGraph", "toggleDebugMode"}
    /\ focusableItems = <<"A", "B", "C">>
    /\ neighbours = [it \in Items |-> NoNeighbours]

\* C12: the first build over A, B, C sets A.right to B (position 1), and
\* A.bottom to none if no item lies below A within the cone; an item that does
\* lie there (C does: it is below A and passes the gate) is A.bottom instead.
C12_ExampleBuild ==
    [][FirstBuildOfExample =>
          /\ neighbours'["A"]["right"] = Some(1)
          /\ neighbours'["A"]["bottom"] =
                IF CandidatesOf("A", "bottom") = {} THEN None
                ELSE Some(NearestFirst("A", "bottom"))]_vars

\* The build of the scenario has run: A.right is B, and A.bottom is C, the
\* only item below A.
C12_Witness ==
    /\ lastCall.op = "updateFocusGraph"
    /\ focusableItems = <<"A", "B", "C">>
    /\ neighbours = FreshGraph
    /\ neighbours["A"]["right"] = Some(1)
    /\ neighbours["A"]["bottom"] = Some(2)
    /\ neighbours["C"]["top"] = Some(1)

-----------------------------------------------------------------------------
(* C13 *)

\* This step is a call of updateFocusGraph that directly follows a build:
\* nothing (item set, geometry, eligibility, debug mode) changed in between.
SecondBuild ==
    /\ lastCall.op \in {"updateFocusGraph", "toggleDebugMode"}
    /\ lastCall'.op = "updateFocusGraph"

\* C13: a graph build that directly follows a graph build leaves every
\* neighbour field of every item as the first build left it (also when the
\* builds end in the TypeError of the debug overlay).
C13_BuildIsIdempotent ==
    [][SecondBuild => neighbours' = neighbours]_vars

\* The state between and after two builds, where the builds chose a neighbour
\* for one field and kept in another an assignment a build over fresh items
\* would not make (it was made before a removal took its candidate away).
C13_Witness ==
    /\ lastCall.op = "updateFocusGraph"
    /\ neighbours = updateFocusGraph(Env, debugMode, neighbours).nb
    /\ \E item \in Items, d \in Dirs :
          /\ Registered(item)
          /\ FreshGraph[item][d] # None
          /\ neighbours[item][d] = FreshGraph[item][d]
    /\ \E item \in Items, d \in Dirs :
          /\ Registered(item)
          /\ neighbours[item][d] # None
          /\ FreshGraph[item][d] = None

-----------------------------------------------------------------------------
(* C14 *)

NoDuplicates ==
    \A i, j \in 1..Len(focusableItems) :
        focusableItems[i] = focusableItems[j] => i = j

\* This step is a call of addFocusableItem.
RegisterStep == lastCall'.op = "addFocusableItem"

\* C14 as claimed: the item array never holds an item twice; registering a
\* registered item leaves the array as it is and returns false, registering a
\* new item appends it (the count grows by one) and returns true.
C14_RegisterReportsNewness ==
    /\ []NoDuplicates
    /\ [][RegisterStep =>
            IF Registered(lastCall'.args[1])
            THEN /\ focusableItems' = focusableItems
                 /\ result' = "false"
            ELSE /\ focusableItems' = Append(focusableItems, lastCall'.args[1])
                 /\ result' = "true"]_vars

\* C14 as amended: the item array never holds an item twice; registering a
\* registered item leaves the array as it is, registering a new item appends
\* it (the count grows by one); in both cases addFocusableItem returns no
\* value (undefined).
C14_RegisterReturnsNothing ==
    /\ []NoDuplicates
    /\ [][RegisterStep =>
            /\ result' = Undefined
            /\ IF Registered(lastCall'.args[1])
               THEN focusableItems' = focusableItems
               ELSE /\ focusableItems' = Append(focusableItems, lastCall'.args[1])
                    /\ Len(focusableItems') = Len(focusableItems) + 1]_vars

\* addFocusableItem has just been called with an item that was registered
\* already (a newly added item would be the last of the array).
C14_Witness ==
    /\ lastCall.op = "addFocusableItem"
    /\ result = Undefined
    /\ Registered(lastCall.args[1])
    /\ Len(focusableItems) = 2
    /\ focusableItems[Len(focusableItems)] # lastCall.args[1]

-----------------------------------------------------------------------------
(* C15 *)

\* C15: removeFocusableItem of an item that is not registered returns false
\* and changes neither the item array nor the focus; of a registered item it
\* returns true and removes that item alone, the others keeping their order
\* (the count falls by one); removeAllFocusableItems leaves the array empty.
\* The calls have their whole effect when they return.
C15_UnregisterAndClear ==
    [][/\ lastCall'.op = "removeFocusableItem" =>
            LET item == lastCall'.args[1]
            IN  IF Registered(item)
                THEN /\ result' = "true"
                     /\ focusableItems' = SelectSeq(focusableItems, LAMBDA x : x # item)
                     /\ Len(focusableItems') = Len(focusableItems) - 1
                ELSE /\ result' = "false"
                     /\ focusableItems' = focusableItems
                     /\ currentlyFocusedItem' = currentlyFocusedItem
       /\ lastCall'.op = "removeAllFocusableItems" => focusableItems' = <<>>]_vars

\* An item has just been removed from an array of three; the two others are
\* still there.
C15_Witness ==
    /\ lastCall.op = "removeFocusableItem"
    /\ result = "true"
    /\ Len(focusableItems) = 2
    /\ \A item \in Items : Registered(item) <=> item # lastCall.args[1]

-----------------------------------------------------------------------------
(* C16 *)

\* This step is a call of moveFocus, by the host or by an arrow key.
MoveStep ==
    \/ lastCall'.op = "moveFocus"
    \/ lastCall'.op = "onKeyDown" /\ lastCall'.args[1] \in {37, 38, 39, 40}

\* C16: with nothing focused (currentlyFocusedItem null), moveFocus in any
\* direction changes nothing of the controller, calls no focus() and no click
\* handler and does not throw, whatever is registered (nothing, too).
C16_UnfocusedMoveIsNoOp ==
    [][(MoveStep /\ currentlyFocusedItem = Null) =>
          /\ UNCHANGED <<focusableItems, currentlyFocusedItem, debugMode, neighbours,
                         listeners, debugLines, rect, style>>
          /\ focusCalls' = <<>>
          /\ clickCalls' = <<>>
          /\ result' # Threw]_vars

\* moveFocus has just been called in a cardinal direction on a controller that
\* never had an item (a move that had lost the focus would have followed a
\* neighbour field, and none was ever set).
C16_WitnessEmptySession ==
    /\ lastCall.op = "moveFocus"
    /\ lastCall.args \in CardinalVectors
    /\ currentlyFocusedItem = Null
    /\ focusableItems = <<>>
    /\ listeners = {}
    /\ result = Undefined

\* moveFocus has just been called with two items registered and their graph
\* built, and nothing is focused, so nothing was before the call either (every
\* field holds a position inside the array: a move from a focused item would
\* have ended on an item).
C16_Witness ==
    /\ lastCall.op = "moveFocus"
    /\ lastCall.args \in CardinalVectors
    /\ currentlyFocusedItem = Null
    /\ Len(focusableItems) = 2
    /\ neighbours = FreshGraph
    /\ \E item \in Items, d \in Dirs : neighbours[item][d] # None

-----------------------------------------------------------------------------
(* C17 *)

\* C17: toggleDebugMode flips the debug flag; while debug mode is off the
\* overlay holds no line (the flag starts off and changes only in a toggle,
\* which rebuilds; every rebuild empties the overlay before it draws, and
\* draws only in debug mode), so the second of two toggles ends with debug
\* mode off and an empty overlay; and the lines present after a rebuild are
\* lines of that rebuild, one for a set neighbour field of a registered
\* eligible item.
C17_DebugOverlayFollowsDebugMode ==
    /\ [](~debugMode => debugLines = {})
    /\ [](lastCall.op \in {"updateFocusGraph", "toggleDebugMode"} =>
            \A line \in debugLines :
                /\ Registered(line[1])
                /\ Eligible(line[1])
                /\ neighbours[line[1]][line[2]] # None)
    /\ [][lastCall'.op = "toggleDebugMode" => debugMode' = ~debugMode]_vars

\* Debug mode has just been toggled off again (the flag starts off, so the
\* toggles so far are an even number, two at least) over two or more items
\* with neighbours, whose lines the debug-mode rebuild had drawn.
C17_Witness ==
    /\ lastCall.op = "toggleDebugMode"
    /\ ~debugMode
    /\ debugLines = {}
    /\ Len(focusableItems) >= 2
    /\ \E item \in Items, d \in Dirs : Registered(item) /\ neighbours[item][d] # None

-----------------------------------------------------------------------------
(* C18 *)

\* This step is a call of setCurrentFocusItem or of moveFocus (by the host or
\* by an arrow key).
SetOrMoveStep == lastCall'.op = "setCurrentFocusItem" \/ MoveStep

\* C18 as claimed: currentlyFocusedItem changes in no step other than a call
\* of setCurrentFocusItem or moveFocus.
C18_FocusChangesOnlyBySetOrMove ==
    [][currentlyFocusedItem' # currentlyFocusedItem => SetOrMoveStep]_vars

\* C18 as amended: currentlyFocusedItem changes only in a call of
\* setCurrentFocusItem or moveFocus, or when the element of an item that was
\* ever registered (registered now or not) receives a focus event, which makes
\* that item the focused one; registration, removal, clearing, graph builds,
\* debug toggles and the Enter key leave it as it is.
C18_FocusChangesBySetMoveOrFocusEvent ==
    [][currentlyFocusedItem' # currentlyFocusedItem =>
          \/ SetOrMoveStep
          \/ /\ lastCall'.op = "focus event"
             /\ lastCall'.args[1] \in listeners
             /\ currentlyFocusedItem' = lastCall'.args[1]]_vars

\* A focus event on the element of an item that is no longer registered has
\* just made that item the focused one.
C18_Witness ==
    /\ lastCall.op = "focus event"
    /\ currentlyFocusedItem = lastCall.args[1]
    /\ ~Registered(currentlyFocusedItem)
    /\ currentlyFocusedItem \in listeners

-----------------------------------------------------------------------------
(* C19 *)

\* The position a cardinal moveFocus hands to setCurrentFocusItem: the field of
\* the focused item for the step's direction, None when nothing is focused.
MoveTarget ==
    IF currentlyFocusedItem \notin Items THEN None
    ELSE IF lastCall'.op = "onKeyDown"
    THEN neighbours[currentlyFocusedItem][CardinalField(
             <<keyDirection(lastCall'.args[1]).x, keyDirection(lastCall'.args[1]).y>>)]
    ELSE neighbours[currentlyFocusedItem][CardinalField(lastCall'.args)]

\* C19: element.focus() is called exactly when a setCurrentFocusItem reaches a
\* registered item, directly or from moveFocus: once, on the item that is
\* focused after the call.  A setCurrentFocusItem with an index outside the
\* array, a moveFocus with nothing focused or with no neighbour in the
\* direction, and every other operation call no focus().
C19_FocusCalledOnSuccessOnly ==
    [][/\ focusCalls' # <<>> =>
            /\ SetOrMoveStep
            /\ focusCalls' = <<currentlyFocusedItem'>>
            /\ Registered(currentlyFocusedItem')
       /\ lastCall'.op = "setCurrentFocusItem" =>
            IF InRange(lastCall'.args[1])
            THEN focusCalls' = <<ItemAt(lastCall'.args[1])>>
            ELSE focusCalls' = <<>>
       /\ (MoveStep /\ (lastCall'.op = "moveFocus" => lastCall'.args \in CardinalVectors)) =>
            IF MoveTarget # None /\ InRange(MoveTarget[1])
            THEN focusCalls' = <<ItemAt(MoveTarget[1])>>
            ELSE focusCalls' = <<>>]_vars

\* setCurrentFocusItem has just been called with a position inside an array of
\* two items and has called focus() once, on the item at that position, which
\* is the focused item now.
C19_Witness ==
    /\ lastCall.op = "setCurrentFocusItem"
    /\ InRange(lastCall.args[1])
    /\ focusCalls = <<currentlyFocusedItem>>
    /\ currentlyFocusedItem = ItemAt(lastCall.args[1])
    /\ Len(focusableItems) = 2

\* An arrow key has just moved the focus along a neighbour field: one focus()
\* call, on the item now focused.
C19_WitnessMove ==
    /\ lastCall.op = "onKeyDown"
    /\ focusCalls = <<currentlyFocusedItem>>
    /\ Registered(currentlyFocusedItem)
    /\ neighbours = FreshGraph

-----------------------------------------------------------------------------
(* C20 *)

\* A in the top left cell, B two cells to its right, C between them and two
\* rows down: from A, B is the nearest item to the right (the right distance
\* counts C's vertical offset twice); from B, C is the nearest item to the left.
AsymmetricLayout == Layout(<<0, 0>>, <<2, 0>>, <<1, 2>>)

AsymmetryInit == InitWith({AsymmetricLayout}) /\ NoPair

\* The registration and graph-build operations over that layout.
AsymmetrySpec == AsymmetryInit /\ [][GraphNext]_vars

\* C20: the first build over A, B, C in this layout makes B the right
\* neighbour of A and C, not A, the left neighbour of B: a direction of one
\* item is chosen without regard to the opposite direction of the item chosen.
C20_RightAndLeftAreIndependent ==
    [][FirstBuildOfExample =>
          /\ neighbours'["A"]["right"] = Some(1)
          /\ neighbours'["B"]["left"] = Some(2)
          /\ \A item \in Items : \A d \in {"left", "right"} :
                neighbours'[item][d] =
                    IF CandidatesOf(item, d) = {} THEN None
                    ELSE Some(NearestFirst(item, d))]_vars

\* The build has run: A.right is B while B.left is C.
C20_Witness ==
    /\ JustBuilt
    /\ focusableItems = <<"A", "B", "C">>
    /\ neighbours = FreshGraph
    /\ ItemAt(neighbours["A"]["right"][1]) = "B"
    /\ ItemAt(neighbours["B"]["left"][1]) = "C"

-----------------------------------------------------------------------------
(* C21 *)

\* C21 as claimed: the focused item, when there is one, is registered; and
\* the Enter key's click-state calls go to registered items only.
C21_FocusedItemIsRegistered ==
    /\ currentlyFocusedItem \in Items => Registered(currentlyFocusedItem)
    /\ \A k \in 1..Len(clickCalls) : Registered(clickCalls[k][1])

\* The same for the moves: a move that reads a neighbour field reads it from
\* a registered item.
C21_MoveSourceIsRegistered ==
    [][(MoveStep /\ currentlyFocusedItem \in Items
        /\ currentlyFocusedItem' # currentlyFocusedItem)
       => Registered(currentlyFocusedItem)]_vars

-----------------------------------------------------------------------------
(* C22 *)

\* The neighbour field the claim gives to a direction vector <<x, y>>: None for
\* the zero vector and for a vector with both components non-zero.
ClaimedField(v) ==
    IF v[2] = 0 /\ v[1] > 0 THEN Some("right")
    ELSE IF v[2] = 0 /\ v[1] < 0 THEN Some("left")
    ELSE IF v[1] = 0 /\ v[2] > 0 THEN Some("top")
    ELSE IF v[1] = 0 /\ v[2] < 0 THEN Some("bottom")
    ELSE None

\* The field the claim gives to a key: the arrows' fields, None for other keys.
ClaimedKeyField(keyCode) ==
    CASE keyCode = 37 -> Some("left")
      [] keyCode = 38 -> Some("top")
      [] keyCode = 39 -> Some("right")
      [] keyCode = 40 -> Some("bottom")
      [] OTHER -> None

\* The focused item after the focused item's field is followed: the item
\* itself when no field is read or the field is unset, the item now at the
\* stored position, null when that position is past the end of the array.
Following(field) ==
    IF field = None \/ neighbours[currentlyFocusedItem][field[1]] = None
    THEN currentlyFocusedItem
    ELSE IF InRange(neighbours[currentlyFocusedItem][field[1]][1])
    THEN ItemAt(neighbours[currentlyFocusedItem][field[1]][1])
    ELSE Null

\* C22 as claimed: with an item focused, moveFocus follows the right field iff
\* y = 0 and x > 0, the left field iff y = 0 and x < 0, the top field iff x = 0
\* and y > 0, the bottom field iff x = 0 and y < 0, and leaves the focus alone
\* for every other vector (the zero vector too); the arrow keys 37, 38, 39, 40
\* follow left, top, right, bottom and every other key leaves the focus alone.
C22_DirectionDecoding ==
    [][(currentlyFocusedItem \in Items) =>
          /\ lastCall'.op = "moveFocus"
                => currentlyFocusedItem' = Following(ClaimedField(lastCall'.args))
          /\ lastCall'.op = "onKeyDown"
                => (currentlyFocusedItem' = Following(ClaimedKeyField(lastCall'.args[1])))]_vars

\* What moveFocus does with the zero vector: it follows the left field, as
\* for every vector with y = 0 and x <= 0; the rest is as claimed.
C22_ZeroVectorReadsLeft ==
    [][(currentlyFocusedItem \in Items) =>
          /\ lastCall'.op = "moveFocus"
                => currentlyFocusedItem' =
                      Following(IF lastCall'.args = <<0, 0>> THEN Some("left")
                                ELSE ClaimedField(lastCall'.args))
          /\ lastCall'.op = "onKeyDown"
                => (currentlyFocusedItem' = Following(ClaimedKeyField(lastCall'.args[1])))]_vars

=============================================================================
